---- MODULE Spec2Model ----
(***************************************************************************)
(* Model of the per-user quota and generation-lock layer of the try-on bot *)
(* (src/main.py): the daily limiter with its two backends                   *)
(* (consume_daily_quota / refund_daily_quota), the per-user asyncio locks   *)
(* (USER_LOCKS) and the generation branch of on_callback.                   *)
(*                                                                         *)
(* A handler invocation runs in a slot.  Between two awaits a handler runs  *)
(* atomically on the event loop, so each action below is the code between   *)
(* two awaits.  The environment decides what every awaited call does        *)
(* (returns or raises), when the local day rolls over, and whether the      *)
(* Redis server answers.                                                    *)
(***************************************************************************)
EXTENDS Integers, Sequences, FiniteSets, TLC

\* ------------------------------------------------------------------ bounds
MaxDay == 1          \* days are 0..MaxDay
MaxRequests == 3     \* handler invocations started in one behaviour
MaxOver == 1         \* direct calls: a key counts at most DAILY_LIMIT + MaxOver
MaxLimit == 2        \* DAILY_LIMIT is drawn from 1..MaxLimit
MaxUserRequests == 2 \* handler invocations started when every user calls
DaySeconds == 6      \* wall-clock seconds from one local midnight to the next
TicksPerSecond == 2  \* resolution of datetime.now() within one second
ShiftSeconds == 2    \* size of a change of the zone's UTC offset

Users == {"u1", "u2"}
Callers == {"u1"}    \* the users whose callbacks arrive
Slots == {"a", "b"}  \* handler invocations that can be in flight together
Days == 0 .. MaxDay

NoDay == -1          \* _mem_datestr = None
NoSlot == "-"        \* a lock nobody holds

VARIABLES
    day,             \* _today_str(): index of the current local day
    DAILY_LIMIT,     \* the configured allowance L
    REDIS_URL,       \* TRUE iff REDIS_URL is a non-empty string
    redis_client,    \* TRUE iff _redis_client is not None
    redis_up,        \* TRUE iff the Redis server answers a ping
    mem_counts,      \* _mem_counts: dict key -> count
    mem_datestr,     \* _mem_datestr
    redis_counts,    \* the counters of the Redis server: dict key -> integer
    redis_ttl,       \* the keys of the Redis server that have an expiry
    USER_LOCKS,      \* user -> [holder, waiters] (asyncio.Lock)
    req,             \* slot -> the handler invocation running in it
    started,         \* handler invocations started so far
    hist,            \* user -> what happened to the user's key of the current day
    qlog,            \* the calls made to the quota manager directly (SpecQuota)
    clock            \* the last call of _seconds_until_end_of_day (SpecClock)

vars == <<day, DAILY_LIMIT, REDIS_URL, redis_client, redis_up, mem_counts, mem_datestr,
          redis_counts, redis_ttl, USER_LOCKS, req, started, hist, qlog, clock>>

quotaVars == <<redis_client, mem_counts, mem_datestr, redis_counts, redis_ttl>>

\* ------------------------------------------------------------- dictionaries
EmptyDict == [k \in {} |-> 0]

DictGet(m, k, default) == IF k \in DOMAIN m THEN m[k] ELSE default

DictPut(m, k, v) == [x \in (DOMAIN m) \cup {k} |-> IF x = k THEN v ELSE m[x]]

DictDrop(m, ks) == [x \in (DOMAIN m) \ ks |-> m[x]]

Max(a, b) == IF a >= b THEN a ELSE b

\* QuotaKey with the user id left out of the key.
QuotaKeyNoUser(u, d) == <<"u1", d>>

\* key = f"tryon:daily:{user_id}:{datestr}"
QuotaKey(u, d) == <<u, d>>

\* ------------------------------------------------------------ Redis server
\* INCR: a missing key counts as 0; an existing expiry is kept.
RedisIncr(rc, k) == DictPut(rc, k, DictGet(rc, k, 0) + 1)

\* RedisDecr with the count raised instead of lowered.
RedisDecrAdds(rc, k) == DictPut(rc, k, DictGet(rc, k, 0) + 1)

\* DECR: a missing key counts as 0 and is created; the result may be negative.
RedisDecr(rc, k) == DictPut(rc, k, DictGet(rc, k, 0) - 1)

\* EXPIRE key ttl, with ttl = the seconds left of local day d: the key lives
\* until the end of day d.
RedisExpire(ttl, k, d) == DictPut(ttl, k, d)

\* The keys whose expiry has passed when day d begins.
RedisExpired(ttl, d) == {k \in DOMAIN ttl : ttl[k] < d}

\* ----------------------------------------------------------- quota manager
\* The limiter's state as one value, for the operators below.
QuotaState ==
    [url |-> REDIS_URL, client |-> redis_client, mem |-> mem_counts,
     marker |-> mem_datestr, rc |-> redis_counts, ttl |-> redis_ttl]

\* _get_redis(): the cached client if there is one; None without REDIS_URL;
\* else connect and ping, and on any failure return None and cache nothing.
\* The value is "r is not None", which is also the new "_redis_client is not
\* None".
get_redis(client, url, ping) == client \/ (url /\ ping)

ConsumeFaults == {"none", "incr", "expire"}
RefundFaults == {"none", "decr"}

\* consume_mem with the comparison "used < DAILY_LIMIT".
consume_mem_strict(q, u, d, L) ==
    LET counts == IF q.marker # d THEN EmptyDict ELSE q.mem
        used == DictGet(counts, QuotaKey(u, d), 0) + 1
    IN  [q |-> [q EXCEPT !.mem = DictPut(counts, QuotaKey(u, d), used),
                         !.marker = d],
         raised |-> FALSE, backend |-> "mem",
         allowed |-> (used < L), remaining |-> Max(0, L - used), used |-> used]

\* The in-memory branch of consume_daily_quota (lines 145-154).
consume_mem(q, u, d, L) ==
    LET counts == IF q.marker # d THEN EmptyDict ELSE q.mem
        used == DictGet(counts, QuotaKey(u, d), 0) + 1
    IN  [q |-> [q EXCEPT !.mem = DictPut(counts, QuotaKey(u, d), used),
                         !.marker = d],
         raised |-> FALSE, backend |-> "mem",
         allowed |-> (used <= L), remaining |-> Max(0, L - used), used |-> used]

\* consume_redis with INCR left out once the count has reached the limit.
consume_redis_capped(q, u, d, L, fault) ==
    LET k == QuotaKey(u, d)
        before == DictGet(q.rc, k, 0)
        rc1 == IF before >= L THEN q.rc ELSE RedisIncr(q.rc, k)
        used == before + 1
        ttl1 == IF used = 1 THEN RedisExpire(q.ttl, k, d) ELSE q.ttl
    IN  [q |-> [q EXCEPT !.rc = rc1, !.ttl = ttl1],
         raised |-> FALSE, backend |-> "redis",
         allowed |-> (used <= L), remaining |-> Max(0, L - used), used |-> used]

\* The Redis branch of consume_daily_quota (lines 156-161).  fault names the
\* Redis command that raises, if any: the exception leaves the function.
consume_redis(q, u, d, L, fault) ==
    LET k == QuotaKey(u, d)
        rc1 == IF fault = "incr" THEN q.rc ELSE RedisIncr(q.rc, k)
        used == DictGet(rc1, k, 0)
        ttl1 == IF fault = "none" /\ used = 1 THEN RedisExpire(q.ttl, k, d) ELSE q.ttl
        threw == fault = "incr" \/ (fault = "expire" /\ used = 1)
    IN  [q |-> [q EXCEPT !.rc = rc1, !.ttl = ttl1],
         raised |-> threw, backend |-> "redis",
         allowed |-> (~threw /\ used <= L),
         remaining |-> IF threw THEN 0 ELSE Max(0, L - used),
         used |-> IF threw THEN 0 ELSE used]

\* consume_daily_quota(user_id) on day d: returns (allowed, remaining, used).
consume_daily_quota(q, u, d, L, ping, fault) ==
    LET r == get_redis(q.client, q.url, ping)
        q1 == [q EXCEPT !.client = r]
    IN  IF r THEN consume_redis(q1, u, d, L, fault) ELSE consume_mem(q1, u, d, L)

\* refund_mem with the decremented value computed and not stored.
refund_mem_not_stored(q, u, d) == q

\* The in-memory branch of refund_daily_quota (lines 169-172).
refund_mem(q, u, d) ==
    LET k == QuotaKey(u, d)
    IN  IF k \in DOMAIN q.mem /\ q.mem[k] > 0
        THEN [q EXCEPT !.mem = DictPut(q.mem, k, q.mem[k] - 1)]
        ELSE q

\* The Redis branch of refund_daily_quota (lines 174-177): an exception of
\* DECR is swallowed.
refund_redis(q, u, d, fault) ==
    IF fault = "decr" THEN q
    ELSE [q EXCEPT !.rc = RedisDecr(q.rc, QuotaKey(u, d))]

\* refund_daily_quota(user_id) on day d.
refund_daily_quota(q, u, d, ping, fault) ==
    LET r == get_redis(q.client, q.url, ping)
        q1 == [q EXCEPT !.client = r]
    IN  IF r THEN refund_redis(q1, u, d, fault) ELSE refund_mem(q1, u, d)

\* The limiter's variables take the values of q.
SetQuota(q) ==
    /\ redis_client' = q.client
    /\ mem_counts' = q.mem
    /\ mem_datestr' = q.marker
    /\ redis_counts' = q.rc
    /\ redis_ttl' = q.ttl

\* -------------------------------------------------------------- the record
Backends == {"mem", "redis"}

\* History of one user's key of the current day (observation only; no action
\* reads it to decide anything).
\*   delivered requests charged to the key that ended Delivered
\*   denied    requests charged to the key that ended Denied
\*   failed    a generation failed and its refund lowered the key
\*   leak      a request charged to the key ended with neither a delivery nor
\*             an applied refund
\*   consumed  consume_daily_quota was called for the user on the current day
NoHist ==
    [delivered |-> 0, denied |-> 0, failed |-> FALSE, leak |-> FALSE,
     consumed |-> FALSE]

\* The calls made directly to the quota manager, for one user's key of the
\* current day and per backend (observation only):
\*   incs   increments applied to the key while no refund was called on it
\*          (0 afterwards)
\*   refs   a refund was called on the key
\*   den    a consume on the key returned allowed = false
\*   trail  the last operations on the key: "C" a consume that returned `used`,
\*          "CR" that consume followed at once by a refund, whose store
\*          operation raised (applied = FALSE) or not
NoTrail == [st |-> "-", used |-> 0, applied |-> FALSE]

NoKeyLog ==
    [incs |-> [b \in Backends |-> 0], refs |-> [b \in Backends |-> FALSE],
     den |-> [b \in Backends |-> FALSE],
     trail |-> [b \in Backends |-> NoTrail]]

\* The last consume call: what it returned, and where it stood in the calls on
\* its key (ord: the increments applied so far; clean: no refund before it;
\* crc: it came right after a consume and a refund, `first` being what that
\* consume returned).
NoCall ==
    [ret |-> FALSE, user |-> "-", backend |-> "-", allowed |-> FALSE,
     remaining |-> 0, used |-> 0, ord |-> 0, clean |-> FALSE,
     crc |-> FALSE, first |-> 0, applied |-> FALSE]

NoLog == [keys |-> [u \in Users |-> NoKeyLog], last |-> NoCall]

\* ------------------------------------------------------------ local clock
\* Wall-clock time is counted in ticks since the last local midnight.
DayTicks == DaySeconds * TicksPerSecond

Instants == 0 .. DayTicks - 1

\* The change of the zone's UTC offset that still lies between an instant and
\* the next local midnight, in ticks: none, clocks set forward, clocks set
\* back.  LIMIT_TZ names any zone of the tz database.
ZoneShifts == {0, ShiftSeconds * TicksPerSecond, 0 - ShiftSeconds * TicksPerSecond}

\* The time that really passes from wall-clock instant now to the next local
\* midnight, in ticks.
RealGap(now, ahead) == DayTicks - now - ahead

\* _seconds_until_end_of_day() (lines 132-137): now and end carry the same
\* tzinfo, so "end - now" is the difference of the two wall-clock readings;
\* int() drops the fraction of a second.
seconds_until_end_of_day(now) == Max(1, (DayTicks - now) \div TicksPerSecond)

\* No call of _seconds_until_end_of_day yet.
NoClock == [now |-> 0, ahead |-> 0, ttl |-> 0]

\* A slot with no handler in it.
IdleReq ==
    [pc |-> "idle", user |-> "-", allowed |-> FALSE, remaining |-> 0, used |-> 0,
     day |-> NoDay, backend |-> "-", outcome |-> "-",
     locked |-> FALSE, gens |-> 0, genFailed |-> FALSE, photoSent |-> FALSE,
     refunds |-> 0,
     refundRaised |-> FALSE,
     eligible |-> FALSE, firstOfDay |-> FALSE]

\* What a handler carries past the await that follows consume: the fields that
\* only describe the consume call are dropped.
PastConsume(r) ==
    [r EXCEPT !.eligible = FALSE, !.firstOfDay = FALSE]

InFlight(s) == req[s].pc \notin {"idle", "done"}

\* The handlers of user u that are past consume and not finished.
InFlightOf(u) == {s \in Slots : InFlight(s) /\ req[s].user = u}

\* ------------------------------------------------------------ asyncio.Lock
FreeLock == [holder |-> NoSlot, waiters |-> <<>>]

\* LockFree with the holder not looked at.
LockFreeIgnoresHolder(l) == l.waiters = <<>>

\* Lock.acquire() returns at once iff the lock is not locked and nobody waits.
LockFree(l) == l.holder = NoSlot /\ l.waiters = <<>>

\* Lock.acquire(): take the lock, or queue behind the waiters.
LockAcquire(l, s) ==
    IF LockFree(l) THEN [l EXCEPT !.holder = s]
    ELSE [l EXCEPT !.waiters = Append(@, s)]

\* LockRelease with the lock left locked.
LockReleaseForgotten(l) == l

\* Lock.release(): unlock; the first waiter is woken and takes the lock when it
\* runs (LockGranted).
LockRelease(l) == [l EXCEPT !.holder = NoSlot]

\* AfterConsume with the "if not allowed" return missing.
AfterConsumeNoReturn(allowed) == "notify"

\* on_callback lines 516-527: where the handler goes with the decision.
AfterConsume(allowed) == IF allowed THEN "notify" ELSE "deny"

\* -------------------------------------------------------------------- Init
Init ==
    /\ day = 0
    /\ DAILY_LIMIT \in 1 .. MaxLimit
    /\ REDIS_URL \in BOOLEAN
    /\ redis_client = FALSE
    /\ redis_up = TRUE
    /\ mem_counts = EmptyDict
    /\ mem_datestr = NoDay
    /\ redis_counts = EmptyDict
    /\ redis_ttl = EmptyDict
    /\ USER_LOCKS = [u \in Users |-> FreeLock]
    /\ req = [s \in Slots |-> IdleReq]
    /\ started = 0
    /\ hist = [u \in Users |-> NoHist]
    /\ qlog = NoLog
    /\ clock = NoClock

\* ----------------------------------------------------------------- actions
\* on_callback, "print:" branch, lines 500-527: the selection is complete and
\* consume_daily_quota is called.  A denied request goes on to send the limit
\* message, an allowed one to send the "try-on in progress" message; an
\* exception of a Redis command leaves the handler.
Callback(s, u) ==
    /\ req[s].pc = "idle"
    /\ started < MaxRequests
    /\ \E fault \in ConsumeFaults :
       \E c \in {consume_daily_quota(QuotaState, u, day, DAILY_LIMIT, redis_up, fault)} :
         LET b == c.backend
             h == hist[u]
             inc == c.q.rc # redis_counts \/ b = "mem"
         IN  /\ SetQuota(c.q)
             /\ hist' = [hist EXCEPT ![u] =
                    [h EXCEPT !.leak = @ \/ (c.raised /\ inc),
                              !.consumed = TRUE]]
             /\ req' = [req EXCEPT ![s] =
                    IF c.raised
                    THEN [IdleReq EXCEPT !.pc = "done", !.user = u,
                                         !.outcome = "Raised"]
                    ELSE [IdleReq EXCEPT
                            !.pc = AfterConsume(c.allowed),
                            !.user = u, !.allowed = c.allowed,
                            !.remaining = c.remaining, !.used = c.used,
                            !.day = day, !.backend = b,
                            !.eligible = /\ h.failed /\ ~h.leak
                                         /\ h.delivered < DAILY_LIMIT
                                         /\ InFlightOf(u) = {},
                            !.firstOfDay = ~h.consumed]]
    /\ started' = started + 1
    /\ UNCHANGED <<day, DAILY_LIMIT, REDIS_URL, clock, redis_up, USER_LOCKS, qlog>>

\* Lines 516-525: the limit message is sent and the handler returns.
DenyReply(s) ==
    /\ req[s].pc = "deny"
    /\ req' = [req EXCEPT ![s] =
           [PastConsume(@) EXCEPT !.pc = "done", !.outcome = "Denied"]]
    /\ hist' = [hist EXCEPT ![req[s].user].denied =
                    @ + (IF req[s].day = day THEN 1 ELSE 0)]
    /\ UNCHANGED <<day, DAILY_LIMIT, REDIS_URL, clock, redis_up, quotaVars, USER_LOCKS, started, qlog>>

\* The handler in slot s holds its user's lock and calls the generation
\* (lines 543-555).
EnterGeneration(r) == [r EXCEPT !.pc = "gen", !.locked = TRUE, !.gens = @ + 1]

\* Lines 527-546: the progress message returned; "async with lock" takes the
\* lock and the generation starts, or the handler queues for the lock.
Notify(s) ==
    /\ req[s].pc = "notify"
    /\ LET u == req[s].user
           l == USER_LOCKS[u]
       IN  /\ USER_LOCKS' = [USER_LOCKS EXCEPT ![u] = LockAcquire(l, s)]
           /\ req' = [req EXCEPT ![s] =
                  IF LockFree(l) THEN EnterGeneration(PastConsume(@))
                  ELSE [PastConsume(@) EXCEPT !.pc = "waiting"]]
    /\ UNCHANGED <<day, DAILY_LIMIT, REDIS_URL, clock, redis_up, quotaVars, started, hist, qlog>>

\* Line 527: the progress message raised; the exception leaves the handler
\* before the lock and after the charge.
NotifyRaises(s) ==
    /\ req[s].pc = "notify"
    /\ req' = [req EXCEPT ![s] =
           [PastConsume(@) EXCEPT !.pc = "done", !.outcome = "Raised"]]
    /\ hist' = [hist EXCEPT ![req[s].user].leak = @ \/ (req[s].day = day)]
    /\ UNCHANGED <<day, DAILY_LIMIT, REDIS_URL, clock, redis_up, quotaVars, USER_LOCKS, started, qlog>>

\* Line 543: a queued handler is woken by the release and takes the lock.
LockGranted(s) ==
    /\ req[s].pc = "waiting"
    /\ LET u == req[s].user
           l == USER_LOCKS[u]
       IN  /\ l.holder = NoSlot
           /\ l.waiters # <<>>
           /\ Head(l.waiters) = s
           /\ USER_LOCKS' = [USER_LOCKS EXCEPT ![u] =
                  [holder |-> s, waiters |-> Tail(l.waiters)]]
    /\ req' = [req EXCEPT ![s] = EnterGeneration(@)]
    /\ UNCHANGED <<day, DAILY_LIMIT, REDIS_URL, clock, redis_up, quotaVars, started, hist, qlog>>

\* Lines 546-583: the generation returned its bytes; the photo is being sent.
GenReturns(s) ==
    /\ req[s].pc = "gen"
    /\ req' = [req EXCEPT ![s].pc = "sending"]
    /\ UNCHANGED <<day, DAILY_LIMIT, REDIS_URL, clock, redis_up, quotaVars, USER_LOCKS, started, hist, qlog>>

\* Lines 608-621, the except block: refund, then the audit record is started,
\* then the error message is sent.  If starting the audit record raises, the
\* exception leaves the handler and "async with" releases the lock.
ExceptBlock(s, genFailed, sent) ==
    \E fault \in RefundFaults, audit \in BOOLEAN :
      \E q \in {refund_daily_quota(QuotaState, req[s].user, day, redis_up, fault)} :
        LET u == req[s].user
            applied == q.rc # redis_counts \/ q.mem # mem_counts
            h == hist[u]
        IN  /\ SetQuota(q)
            /\ hist' = [hist EXCEPT ![u] =
                   [h EXCEPT !.failed = @ \/ (genFailed /\ applied),
                             !.leak = @ \/ (~applied /\ req[s].day = day)]]
            /\ req' = [req EXCEPT ![s] =
                   [@ EXCEPT !.refunds = @ + 1,
                             !.refundRaised = fault = "decr" /\ q.client,
                             !.genFailed = genFailed,
                             !.photoSent = sent,
                             !.pc = IF audit THEN "failmsg" ELSE "done",
                             !.outcome = IF audit THEN @ ELSE "Raised"]]
            /\ USER_LOCKS' = IF audit THEN USER_LOCKS
                             ELSE [USER_LOCKS EXCEPT ![u] = LockRelease(@)]

\* Line 546: the generation raised.
GenRaises(s) ==
    /\ req[s].pc = "gen"
    /\ ExceptBlock(s, TRUE, FALSE)
    /\ UNCHANGED <<day, DAILY_LIMIT, REDIS_URL, clock, redis_up, started, qlog>>

\* Lines 583-606 and 622: the photo was sent and the audit record started; the
\* lock is released and the handler returns.
SendPhoto(s) ==
    /\ req[s].pc = "sending"
    /\ req' = [req EXCEPT ![s].pc = "done", ![s].outcome = "Delivered",
                          ![s].photoSent = TRUE]
    /\ USER_LOCKS' = [USER_LOCKS EXCEPT ![req[s].user] = LockRelease(@)]
    /\ hist' = [hist EXCEPT ![req[s].user].delivered =
                    @ + (IF req[s].day = day THEN 1 ELSE 0)]
    /\ UNCHANGED <<day, DAILY_LIMIT, REDIS_URL, clock, redis_up, quotaVars, started, qlog>>

\* Lines 583-608: send_photo raised (sent = FALSE), or the photo was sent and
\* starting the audit record raised (sent = TRUE): the except block runs.
SendRaises(s) ==
    /\ req[s].pc = "sending"
    /\ \E sent \in BOOLEAN : ExceptBlock(s, FALSE, sent)
    /\ UNCHANGED <<day, DAILY_LIMIT, REDIS_URL, clock, redis_up, started, qlog>>

\* Lines 618-622: the error message is sent; the lock is released and the
\* handler returns.
FailReply(s) ==
    /\ req[s].pc = "failmsg"
    /\ req' = [req EXCEPT ![s].pc = "done", ![s].outcome = "Failed"]
    /\ USER_LOCKS' = [USER_LOCKS EXCEPT ![req[s].user] = LockRelease(@)]
    /\ UNCHANGED <<day, DAILY_LIMIT, REDIS_URL, clock, redis_up, quotaVars, started, hist, qlog>>

\* The handler is gone; its slot can take the next callback.
Return(s) ==
    /\ req[s].pc = "done"
    /\ req' = [req EXCEPT ![s] = IdleReq]
    /\ UNCHANGED <<day, DAILY_LIMIT, REDIS_URL, clock, redis_up, quotaVars, USER_LOCKS, started, hist, qlog>>

\* Local midnight: _today_str() changes, and the Redis server drops the keys
\* whose expiry has passed.
Tick ==
    /\ day < MaxDay
    /\ day' = day + 1
    /\ LET gone == RedisExpired(redis_ttl, day + 1)
       IN  /\ redis_counts' = DictDrop(redis_counts, gone)
           /\ redis_ttl' = DictDrop(redis_ttl, gone)
    /\ hist' = [u \in Users |-> NoHist]
    /\ qlog' = NoLog
    /\ UNCHANGED <<DAILY_LIMIT, REDIS_URL, clock, redis_up, redis_client, mem_counts, mem_datestr,
                   USER_LOCKS, req, started>>

\* ------------------------------------------------- the quota manager alone
\* consume_daily_quota(u) called directly.
QConsume(u) ==
    /\ \E fault \in ConsumeFaults :
       \E c \in {consume_daily_quota(QuotaState, u, day, DAILY_LIMIT, redis_up, fault)} :
         LET b == c.backend
             g == qlog.keys[u]
             inc == c.q.rc # redis_counts \/ b = "mem"
             n == g.incs[b] + (IF inc THEN 1 ELSE 0)
         IN  /\ c.used <= DAILY_LIMIT + MaxOver
             /\ (fault # "none" => b = "redis")
             /\ SetQuota(c.q)
             /\ qlog' =
                  [keys |-> [qlog.keys EXCEPT ![u] =
                      [g EXCEPT !.incs[b] = IF g.refs[b] THEN 0 ELSE n,
                                !.den[b] = @ \/ (~c.raised /\ ~c.allowed),
                                !.trail[b] = IF c.raised THEN NoTrail
                                             ELSE [st |-> "C", used |-> c.used,
                                                   applied |-> FALSE]]],
                   last |-> IF c.raised THEN NoCall
                            ELSE [ret |-> TRUE, user |-> u, backend |-> b,
                                  allowed |-> c.allowed, remaining |-> c.remaining,
                                  used |-> c.used, ord |-> n, clean |-> ~g.refs[b],
                                  crc |-> g.trail[b].st = "CR",
                                  first |-> g.trail[b].used,
                                  applied |-> g.trail[b].applied]]
    /\ UNCHANGED <<day, DAILY_LIMIT, REDIS_URL, clock, redis_up, USER_LOCKS, req, started, hist>>

\* refund_daily_quota(u) called directly.
QRefund(u) ==
    /\ \E fault \in RefundFaults :
       \E q \in {refund_daily_quota(QuotaState, u, day, redis_up, fault)} :
         LET b == IF q.client THEN "redis" ELSE "mem"
             g == qlog.keys[u]
             applied == fault = "none"
         IN  /\ DictGet(q.rc, QuotaKey(u, day), 0) >= 0 - MaxOver
             /\ (fault # "none" => b = "redis")
             /\ SetQuota(q)
             /\ qlog' =
                  [keys |-> [qlog.keys EXCEPT ![u] =
                      [g EXCEPT !.refs[b] = TRUE, !.incs[b] = 0,
                                !.trail[b] = IF @.st = "C"
                                             THEN [st |-> "CR", used |-> @.used,
                                                   applied |-> applied]
                                             ELSE NoTrail]],
                   last |-> NoCall]
    /\ UNCHANGED <<day, DAILY_LIMIT, REDIS_URL, clock, redis_up, USER_LOCKS, req, started, hist>>

\* The Redis server becomes unreachable, or reachable again.
Outage ==
    /\ REDIS_URL
    /\ redis_up' = ~redis_up
    /\ UNCHANGED <<day, DAILY_LIMIT, REDIS_URL, clock, quotaVars, USER_LOCKS, req, started, hist, qlog>>

\* _seconds_until_end_of_day() called at some instant of a local day.
SecondsUntilEndOfDay ==
    /\ \E now \in Instants, ahead \in ZoneShifts :
         /\ RealGap(now, ahead) >= 1
         /\ clock' = [now |-> now, ahead |-> ahead,
                      ttl |-> seconds_until_end_of_day(now)]
    /\ UNCHANGED <<day, DAILY_LIMIT, REDIS_URL, redis_up, quotaVars, USER_LOCKS, req,
                   started, hist, qlog>>

\* The clock function called at arbitrary instants.
SpecClock == Init /\ [][SecondsUntilEndOfDay]_vars

NextQuota ==
    \/ \E u \in Callers : QConsume(u)
    \/ \E u \in Callers : QRefund(u)
    \/ Outage
    \/ Tick

\* The quota manager driven by arbitrary calls, any of which may find the
\* Redis server reachable or not.
SpecQuota == Init /\ [][NextQuota]_vars

Next ==
    \/ \E s \in Slots, u \in Callers : Callback(s, u)
    \/ \E s \in Slots : DenyReply(s)
    \/ \E s \in Slots : Notify(s)
    \/ \E s \in Slots : NotifyRaises(s)
    \/ \E s \in Slots : LockGranted(s)
    \/ \E s \in Slots : GenReturns(s)
    \/ \E s \in Slots : GenRaises(s)
    \/ \E s \in Slots : SendPhoto(s)
    \/ \E s \in Slots : SendRaises(s)
    \/ \E s \in Slots : FailReply(s)
    \/ \E s \in Slots : Return(s)
    \/ Tick

Spec == Init /\ [][Next]_vars

\* Every awaited call of a handler eventually returns or raises, the event
\* loop eventually runs every handler that can run, and a released lock wakes
\* its first waiter.
Fairness ==
    \A s \in Slots :
        /\ WF_vars(DenyReply(s))
        /\ WF_vars(Notify(s) \/ NotifyRaises(s))
        /\ WF_vars(LockGranted(s))
        /\ WF_vars(GenReturns(s) \/ GenRaises(s))
        /\ WF_vars(SendPhoto(s) \/ SendRaises(s))
        /\ WF_vars(FailReply(s))
        /\ WF_vars(Return(s))

SpecLive == Init /\ [][Next]_vars /\ Fairness

\* The same handlers with callbacks arriving from every user.  The users run
\* the same code, so the first callback of a behaviour is taken to be u1's.
NextUsers ==
    \/ \E s \in Slots, u \in Users :
          /\ started < MaxUserRequests
          /\ started = 0 => u = "u1"
          /\ Callback(s, u)
    \/ \E s \in Slots : DenyReply(s)
    \/ \E s \in Slots : Notify(s)
    \/ \E s \in Slots : NotifyRaises(s)
    \/ \E s \in Slots : LockGranted(s)
    \/ \E s \in Slots : GenReturns(s)
    \/ \E s \in Slots : GenRaises(s)
    \/ \E s \in Slots : SendPhoto(s)
    \/ \E s \in Slots : SendRaises(s)
    \/ \E s \in Slots : FailReply(s)
    \/ \E s \in Slots : Return(s)
    \/ Tick

SpecUsers == Init /\ [][NextUsers]_vars

\* ================================================================== claims
\* The handlers of user u that are inside the external generation call.
Generating(u) == {s \in Slots : req[s].user = u /\ req[s].pc = "gen"}

\* C1: for every user, at every reachable state, at most one request of that
\* user is inside the external generation call.
C1_OneGenerationPerUser == \A u \in Users : Cardinality(Generating(u)) <= 1

\* C1, the case: one request of a user generates while another request of the
\* same user is queued on the user's lock.
C1_Witness ==
    \E s, t \in Slots :
        /\ s # t
        /\ req[s].user = req[t].user
        /\ req[s].pc = "gen"
        /\ req[t].pc = "waiting"

\* C2 as claimed: every request that has called consume holds its user's lock
\* from before the consume until its outcome is handled, and no two requests
\* of one user are charged and unresolved at the same time.
C2_LockHeldFromConsume ==
    /\ \A s \in Slots : InFlight(s) => USER_LOCKS[req[s].user].holder = s
    /\ \A u \in Users :
         Cardinality({s \in InFlightOf(u) : req[s].allowed /\ req[s].refunds = 0}) <= 1

ChargedInFlight(u) ==
    {s \in InFlightOf(u) : req[s].allowed /\ req[s].day = day /\ req[s].refunds = 0}

\* C4 as claimed: with the in-process backend, for every user the requests
\* charged to the current day with allowed = true and not refunded (Delivered
\* or in flight) never exceed L.
C4_AllowanceEnforced ==
    ~REDIS_URL =>
        \A u \in Users :
            hist[u].delivered + Cardinality(ChargedInFlight(u)) <= DAILY_LIMIT

\* C5 as claimed: when the generation call raises, refund is called, the
\* request ends in the Failed outcome and its user's lock is released.
C5_FailureRefundedAndSurfaced ==
    \A s \in Slots :
        req[s].genFailed =>
            /\ req[s].refunds >= 1
            /\ req[s].pc = "done" =>
                   /\ req[s].outcome = "Failed"
                   /\ USER_LOCKS[req[s].user].holder # s

\* C6 as claimed: once a failed generation of the user was refunded, a consume
\* made while the user has fewer than L Delivered generations on the current
\* day and no request in flight is allowed.
C6_FailedAttemptForgiven ==
    \A s \in Slots : req[s].eligible => req[s].allowed

LockedRegion == {"gen", "sending", "failmsg"}

\* C8: a user's lock is held only by a request of that user that is between
\* acquire and exit; whenever no request of the user is there the lock is free,
\* and a finished request holds nothing.
C8_LockReleasedOnEveryExit ==
    \A u \in Users :
        LET h == USER_LOCKS[u].holder
        IN  h # NoSlot => (req[h].user = u /\ req[h].pc \in LockedRegion)

\* C8, the case: a request that took the lock ended with an exception raised
\* inside the failure handler, and the lock is free.
C8_Witness ==
    \E s \in Slots :
        /\ req[s].pc = "done" /\ req[s].locked /\ req[s].refunds = 1
        /\ req[s].outcome = "Raised"
        /\ USER_LOCKS[req[s].user] = FreeLock

C10_CountsNonNegative ==
    /\ \A k \in DOMAIN redis_counts : redis_counts[k] >= 0
    /\ \A k \in DOMAIN mem_counts : mem_counts[k] >= 0

\* C11 as claimed: once a connection or liveness check of the Redis server has
\* failed (with REDIS_URL set the in-memory map is only written after such a
\* failure), the process has no Redis client for the rest of its lifetime.
C11_FallbackIsPermanent ==
    (REDIS_URL /\ mem_datestr # NoDay) => ~redis_client

\* C12 as claimed: the first consume call made for a user after local midnight
\* returns used = 1, whatever was consumed or refunded for the user before
\* midnight and whatever request of the user is in flight across midnight.
C12_FreshCountAfterMidnight ==
    \A s \in Slots :
        (req[s].firstOfDay /\ req[s].day > 0) => req[s].used = 1

\* The count stored for user u under the key of the current day, per backend.
MemCount(u) == DictGet(mem_counts, QuotaKey(u, day), 0)

RedisCount(u) == DictGet(redis_counts, QuotaKey(u, day), 0)

\* The user of the handler in slot s, over a step of that handler.
StepUser(s) == IF req[s].pc = "idle" THEN req'[s].user ELSE req[s].user

\* C13: no step of a handler changes the lock or the current day's counter of
\* a user other than its own, so requests of two users proceed independently.
C13_UsersIndependent ==
    [][\A s \in Slots :
         req'[s] # req[s] =>
             \A u \in Users \ {StepUser(s)} :
                 /\ USER_LOCKS'[u] = USER_LOCKS[u]
                 /\ MemCount(u)' = MemCount(u)
                 /\ RedisCount(u)' = RedisCount(u)]_vars

\* C13, the case: a request of u1 and a request of u2 are inside the
\* generation call together, each holding its own user's lock, both charged.
C13_Witness ==
    \E s, t \in Slots :
        /\ req[s].user = "u1" /\ req[t].user = "u2"
        /\ req[s].pc = "gen" /\ req[t].pc = "gen"
        /\ USER_LOCKS["u1"].holder = s /\ USER_LOCKS["u2"].holder = t
        /\ req[s].used = 1 /\ req[t].used = 1

\* C14 as claimed: of two requests of one user charged on the same day, the
\* one whose consume returned the smaller used value takes the user's lock
\* first: the other never holds the lock while it has not yet acquired it.
C14_BilledInLockOrder ==
    \A s, t \in Slots :
        (/\ req[s].user = req[t].user
         /\ req[s].day = req[t].day
         /\ req[s].allowed /\ req[t].allowed
         /\ req[s].used < req[t].used
         /\ req[s].pc \in {"notify", "waiting"}) => ~req[t].locked

\* C15 as claimed: refund is called at most once per request, and only for a
\* request whose consume returned allowed = true and whose generation call
\* raised.
C15_RefundOnlyAfterFailedGeneration ==
    \A s \in Slots :
        /\ req[s].refunds <= 1
        /\ req[s].refunds = 1 => (req[s].allowed /\ req[s].genFailed)

\* C16 as claimed: a failure of the audit sink never changes the outcome: a
\* request whose photo was sent ends Delivered and is not refunded, and a
\* request whose generation raised ends Failed.
C16_AuditNeverChangesOutcome ==
    \A s \in Slots :
        /\ req[s].photoSent =>
               /\ req[s].refunds = 0
               /\ req[s].pc = "done" => req[s].outcome = "Delivered"
        /\ (req[s].genFailed /\ req[s].pc = "done") => req[s].outcome = "Failed"

\* C17 as claimed: when the store operation inside refund raises, the request
\* still ends in the Failed outcome with the lock released, and the step that
\* ran the failed refund leaves every counter unchanged.
C17_FailedRefundSwallowed ==
    /\ [](\A s \in Slots :
            (req[s].refundRaised /\ req[s].pc = "done") =>
                /\ req[s].outcome = "Failed"
                /\ USER_LOCKS[req[s].user].holder # s)
    /\ [][\A s \in Slots :
            (req'[s].refundRaised /\ ~req[s].refundRaised) =>
                /\ redis_counts' = redis_counts
                /\ mem_counts' = mem_counts]_vars

\* The count stored for user u under the key of the current day in backend b.
StoredCount(b, u) == IF b = "mem" THEN MemCount(u) ELSE RedisCount(u)

\* C18 as claimed, in the case it singles out: as long as no refund was called
\* on a key, its stored count never exceeds L.
C18_CountWithinAllowance ==
    \A u \in Users, b \in Backends :
        ~qlog.keys[u].refs[b] => StoredCount(b, u) <= DAILY_LIMIT

\* C18 as amended: the stored count of a key exceeds L only after a consume
\* on that key was denied.
C18_CountAboveAllowanceOnlyAfterDenial ==
    \A u \in Users, b \in Backends :
        StoredCount(b, u) > DAILY_LIMIT => qlog.keys[u].den[b]

\* C18, the case: with no refund called at all, a key of each backend in turn
\* holds more than L after a denied consume.
C18_Witness ==
    \E u \in Users, b \in Backends :
        /\ ~qlog.keys[u].refs["mem"] /\ ~qlog.keys[u].refs["redis"]
        /\ StoredCount(b, u) = DAILY_LIMIT + 1
        /\ qlog.keys[u].den[b]
        /\ qlog.last.ret /\ ~qlog.last.allowed /\ qlog.last.backend = b

\* The count stored for user u in backend b after the step.
StoredCountAfter(b, u) ==
    DictGet(IF b = "mem" THEN mem_counts' ELSE redis_counts', QuotaKey(u, day'), 0)

AllKeysExpire == DOMAIN redis_counts \subseteq DOMAIN redis_ttl

\* C20 as claimed: a handler step that runs a consume that returns, or a
\* refund, and starts with an expiry on every counter key of the Redis server
\* ends with an expiry on every counter key.
C20_EveryKeyExpires ==
    [][(/\ AllKeysExpire
        /\ \E s \in Slots :
              \/ GenRaises(s)
              \/ SendRaises(s)
              \/ \E u \in Callers : Callback(s, u) /\ req'[s].outcome # "Raised")
       => AllKeysExpire']_vars

\* The in-memory map belongs to the current day: the marker is the current
\* day and every key of the map is a key of the current day.
MemOfToday ==
    /\ mem_datestr = day
    /\ \A k \in DOMAIN mem_counts : k[2] = day

\* C21 as claimed: after every consume or refund that a handler runs on the
\* in-memory backend, the marker equals the current day and the map holds only
\* keys of the current day.
C21_MapClearedBeforeFirstUse ==
    [][(/\ ~redis_client'
        /\ \E s \in Slots :
              \/ GenRaises(s)
              \/ SendRaises(s)
              \/ \E u \in Callers : Callback(s, u))
       => MemOfToday']_vars

\* The outcomes a request can end in according to the state machine.
Outcomes == {"Delivered", "Denied", "Failed"}

\* C22 as claimed: under fairness every request eventually ends in one of the
\* outcomes Delivered, Denied or Failed, and every request waiting on its
\* user's lock eventually holds it.
C22_EveryRequestSettles ==
    /\ \A s \in Slots :
         /\ (req[s].pc # "idle") ~> (req[s].pc = "done")
         /\ (req[s].pc = "waiting") ~> (req[s].pc = "gen")
    /\ [](\A s \in Slots : req[s].pc = "done" => req[s].outcome \in Outcomes)

\* C23 as claimed: the value returned by _seconds_until_end_of_day is >= 1,
\* and equals the whole seconds that remain until the next local midnight
\* whenever at least one second remains.
C23_SecondsUntilRollover ==
    clock.ttl # 0 =>
        /\ clock.ttl >= 1
        /\ RealGap(clock.now, clock.ahead) >= TicksPerSecond =>
               clock.ttl = RealGap(clock.now, clock.ahead) \div TicksPerSecond

\* The keys whose stored count is lower after the step than before it.
LoweredKeys ==
    {k \in DOMAIN redis_counts' \cup DOMAIN mem_counts' :
        \/ DictGet(redis_counts', k, 0) < DictGet(redis_counts, k, 0)
        \/ DictGet(mem_counts', k, 0) < DictGet(mem_counts, k, 0)}

\* C24 as claimed: the refund of a request lowers no key other than the
\* (user, day) key that the consume of the same request incremented.
C24_RefundHitsChargedKey ==
    [][\A s \in Slots :
         req'[s].refunds > req[s].refunds =>
             LoweredKeys \subseteq {QuotaKey(req[s].user, req[s].day)}]_vars

\* C25 as claimed: every decision returned by consume has used >= 1,
\* allowed = (used <= L), remaining = max(0, L - used) and
\* 0 <= remaining <= L - 1; a denied one has remaining = 0 and used > L.
C25_DecisionWellFormed ==
    \A s \in Slots :
        req[s].day # NoDay =>
            /\ req[s].used >= 1
            /\ req[s].allowed = (req[s].used <= DAILY_LIMIT)
            /\ req[s].remaining = Max(0, DAILY_LIMIT - req[s].used)
            /\ req[s].remaining >= 0 /\ req[s].remaining <= DAILY_LIMIT - 1
            /\ ~req[s].allowed => (req[s].remaining = 0 /\ req[s].used > DAILY_LIMIT)

\* The backend the handlers use: Redis iff REDIS_URL is set.
HandlerBackend == IF REDIS_URL THEN "redis" ELSE "mem"

\* C26 as claimed: whenever a user has no request in flight, the count stored
\* for (user, current day) equals the number of the user's requests of that
\* day that ended Delivered plus the number that ended Denied.
C26_ExactAccounting ==
    \A u \in Users :
        InFlightOf(u) = {} =>
            StoredCount(HandlerBackend, u) = hist[u].delivered + hist[u].denied

====
